---- MODULE Spec2Model ----
(***************************************************************************)
(* Model of fractals.js (version 1.0, src/unnamed/part_000): the tiled,    *)
(* timer-driven Mandelbrot renderer graph(), its escape-time loop, its     *)
(* colouring and its complex arithmetic.                                   *)
(*                                                                         *)
(* Numbers of fractal space are JavaScript doubles in the source.  The     *)
(* model computes with exact rationals <<n, d>> (d > 0, lowest terms); the *)
(* inputs it draws are dyadic and small, so every value the code computes  *)
(* on them is exactly representable and the double arithmetic is exact.    *)
(* The weights of the palette are sines: they are tabulated (Sin), close   *)
(* enough for Math.floor to give the channel the code computes.            *)
(***************************************************************************)
EXTENDS Integers, Sequences, FiniteSets, TLC

(***************************************************************************)
(* Bounds of the model.                                                    *)
(***************************************************************************)
\* number of graph() calls that create a timer in one behaviour
MaxSessions == 2
\* a further graph() call arrives while the cursor is within the first
\* MaxLead pixel columns of the first row, or after a session has set
\* informer.value
MaxLead == 1
\* number of ticks that fire while more than one timer is live
MaxOverlap == 1
\* number of times one session's completing tick is followed
MaxSignals == 2
\* largest max_iter drawn for the escape-time loop on its own
MaxIterEval == 3
\* the points c drawn for the escape-time loop are k/2, |k| <= MaxCoord
MaxCoord == 5
\* the weights drawn for linear_interpolate run from -MaxSlope/4 to
\* 1 + MaxSlope/4
MaxSlope == 4

(***************************************************************************)
(* Program constants.                                                      *)
(***************************************************************************)
\* var threshold = 4  (Mandelbrot radius, squared)
threshold == 4
\* Math.round(xdiff/40): a row is cut in about 40 tiles
xdivisions == 40
\* Math.round(ydiff/20): a column is cut in about 20 tiles
ydivisions == 20
\* var ptw = 1  (point-square width)
ptw == 1

(***************************************************************************)
(* JavaScript numbers as exact rationals.                                  *)
(***************************************************************************)
Abs(n) == IF n < 0 THEN -n ELSE n

RECURSIVE GCD(_, _)
GCD(a, b) == IF b = 0 THEN a ELSE GCD(b, a % b)

Norm(n, d) ==
    LET g == GCD(Abs(n), Abs(d))
        sgn == IF d < 0 THEN -1 ELSE 1
    IN  <<(sgn * n) \div g, (sgn * d) \div g>>

Num(n) == <<n, 1>>
LCM(a, b) == (a \div GCD(a, b)) * b
RAdd(a, b) ==
    LET l == LCM(a[2], b[2])
    IN  Norm(a[1] * (l \div a[2]) + b[1] * (l \div b[2]), l)
RSub(a, b) ==
    LET l == LCM(a[2], b[2])
    IN  Norm(a[1] * (l \div a[2]) - b[1] * (l \div b[2]), l)
RMul(a, b) == Norm(a[1] * b[1], a[2] * b[2])
RDiv(a, b) == Norm(a[1] * b[2], a[2] * b[1])
RLt(a, b)  ==
    LET l == LCM(a[2], b[2])
    IN  a[1] * (l \div a[2]) < b[1] * (l \div b[2])
RGe(a, b)  == ~RLt(a, b)

\* Math.round of the non-negative quotient n/d: halves round up
Round(n, d) == (2 * n + d) \div (2 * d)

(***************************************************************************)
(* Complex number operands.                                                *)
(***************************************************************************)
add(complex1, complex2) ==
    [imaginary |-> RAdd(complex1.imaginary, complex2.imaginary),
     real      |-> RAdd(complex1.real, complex2.real)]

multiply(complex1, complex2) ==
    [imaginary |-> RAdd(RMul(complex1.real, complex2.imaginary),
                        RMul(complex1.imaginary, complex2.real)),
     real      |-> RSub(RMul(complex1.real, complex2.real),
                        RMul(complex1.imaginary, complex2.imaginary))]

magnitude2(complex) ==
    RAdd(RMul(complex.imaginary, complex.imaginary),
         RMul(complex.real, complex.real))

\* the evaluator of the older variant (src/fractals.js line 77): absolute
\* values before squaring
evalBurningShip(variable, constant) ==
    LET abs == [imaginary |-> <<Abs(variable.imaginary[1]), variable.imaginary[2]>>,
                real      |-> <<Abs(variable.real[1]), variable.real[2]>>]
        mult == multiply(abs, abs)
    IN  add(constant, mult)

\* P(z) = z^2 + c
eval(variable, constant) ==
    LET mult == multiply(variable, variable)
    IN  add(constant, mult)

Zero == [imaginary |-> Num(0), real |-> Num(0)]

(***************************************************************************)
(* Colours.  A Color is the string #RRGGBB, written as the sequence of its *)
(* characters.  linear_interpolate computes its result whenever its weight *)
(* is known exactly; where the weight is a logarithm the blended colour is *)
(* kept as the application that produces it:                               *)
(*   <<"lerp", color1, color2, slope>>  is linear_interpolate(...).        *)
(* A slope is <<"rat", n, d>> (the number n/d), <<"sin", i, k>> (the       *)
(* number Math.sin(i * PI / (2k))) or <<"nu", n, d>> (the number it % 1 of *)
(* the smooth colouring of the squared magnitude n/d).                     *)
(***************************************************************************)
\* the string literals of the source and of the calls the model makes
Hex(s) ==
    CASE s = "#000000" -> <<"#", "0", "0", "0", "0", "0", "0">>
      [] s = "#773399" -> <<"#", "7", "7", "3", "3", "9", "9">>
      [] s = "#CCAA66" -> <<"#", "C", "C", "A", "A", "6", "6">>
      [] s = "#ccaa66" -> <<"#", "c", "c", "a", "a", "6", "6">>
      [] s = "#b38774" -> <<"#", "b", "3", "8", "7", "7", "4">>
      [] s = "#0A0b0C" -> <<"#", "0", "A", "0", "b", "0", "C">>
      [] s = "#ffffff" -> <<"#", "f", "f", "f", "f", "f", "f">>
Undefined == <<"undefined">>
TypeError == <<"TypeError">>

end_color == Hex("#773399")
mid_color == Hex("#CCAA66")

\* the digits Number.prototype.toString(16) writes
Digits == <<"0", "1", "2", "3", "4", "5", "6", "7", "8", "9",
            "a", "b", "c", "d", "e", "f">>
\* the value parseInt(.., 16) gives a digit, in either case
DigitValue(ch) ==
    CASE ch = "A" -> 10 [] ch = "B" -> 11 [] ch = "C" -> 12
      [] ch = "D" -> 13 [] ch = "E" -> 14 [] ch = "F" -> 15
      [] OTHER -> (CHOOSE v \in 0 .. 15 : Digits[v + 1] = ch)

\* parseInt(color.substring(from, from + 2), 16); the "#" is character 0
parseInt16(color, from) ==
    16 * DigitValue(color[from + 1]) + DigitValue(color[from + 2])

\* n.toString(16) of an integer n >= 0
RECURSIVE toString16(_)
toString16(n) ==
    IF n < 16 THEN <<Digits[n + 1]>>
    ELSE Append(toString16(n \div 16), Digits[(n % 16) + 1])

\* Math.floor of the rational q >= 0
Floor(q) == q[1] \div q[2]
RAbs(q) == <<Abs(q[1]), q[2]>>

\* Math.sin(i * PI / (2k)) for 0 <= i <= k <= 4.  Off 0, 1/2 and 1 the
\* value is irrational and given to four decimals; the channels of the
\* palette's anchors stay more than 1/100 from an integer at those weights,
\* so Math.floor sees the same integer.
Sin(i, k) ==
    CASE i = 0 -> Num(0)
      [] i = k -> Num(1)
      [] k = 2 /\ i = 1 -> Norm(7071, 10000)
      [] k = 3 /\ i = 1 -> Norm(1, 2)
      [] k = 3 /\ i = 2 -> Norm(8660, 10000)
      [] k = 4 /\ i = 1 -> Norm(3827, 10000)
      [] k = 4 /\ i = 2 -> Norm(7071, 10000)
      [] k = 4 /\ i = 3 -> Norm(9239, 10000)

\* the weight is a number the model knows
Known(slope) ==
    \/ slope[1] = "rat"
    \/ slope[1] = "sin" /\ slope[2] \in 0 .. slope[3] /\ slope[3] \in 1 .. 4
Value(slope) ==
    IF slope[1] = "rat" THEN Norm(slope[2], slope[3])
    ELSE Sin(slope[2], slope[3])

\* one channel with the weight applied to r2 + r1
channelSum(color1, color2, slope, from) ==
    LET r1 == parseInt16(color1, from)
        r2 == parseInt16(color2, from)
        r  == toString16(Floor(RAbs(RAdd(Num(r1),
                                         RMul(slope, Num(r2 + r1))))))
    IN  IF Len(r) = 2 THEN r ELSE <<"0">> \o r

\* lines 139-142 (144-147, 149-152): one channel, r1 and r2 read at from
channel(color1, color2, slope, from) ==
    LET r1 == parseInt16(color1, from)
        r2 == parseInt16(color2, from)
        r  == toString16(Floor(RAbs(RAdd(Num(r1),
                                         RMul(slope, Num(r2 - r1))))))
    IN  IF Len(r) = 2 THEN r ELSE <<"0">> \o r

\* lines 139-155 for two colour strings and a number
interpolate(color1, color2, slope) ==
    <<"#">> \o channel(color1, color2, slope, 1)
            \o channel(color1, color2, slope, 3)
            \o channel(color1, color2, slope, 5)

\* color1.substring(...) of an undefined colour throws a TypeError
linear_interpolate(color1, color2, slope) ==
    IF color1 = Undefined \/ color2 = Undefined
    THEN TypeError
    ELSE IF Known(slope) /\ Len(color1) = 7 /\ Len(color2) = 7
    THEN interpolate(color1, color2, Value(slope))
    ELSE <<"lerp", color1, color2, slope>>

Max(a, b) == IF a > b THEN a ELSE b

\* new Array(max_iter+1) needs max_iter + 1 >= 0, else a RangeError
paletteThrows(max_iter) == max_iter + 1 < 0

\* a palette whose last entry is eased like the others
paletteNoBlack(max_iter) ==
    [i \in (0 .. max_iter - 1) \cup {max_iter} |->
        linear_interpolate(end_color, mid_color,
                           <<"sin", i, Max(1, max_iter - 1)>>)]

\* a palette whose loop stops one entry early: colors[max_iter-1] is a hole
paletteHole(max_iter) ==
    [i \in (0 .. max_iter - 2) \cup {max_iter} |->
        IF i = max_iter
        THEN Hex("#000000")
        ELSE linear_interpolate(end_color, mid_color,
                                <<"sin", i, Max(1, max_iter - 1)>>)]

\* colors[0 .. max_iter-1] eased between the anchors, colors[max_iter] black
palette(max_iter) ==
    [i \in (0 .. max_iter - 1) \cup {max_iter} |->
        IF i = max_iter
        THEN Hex("#000000")
        ELSE linear_interpolate(end_color, mid_color,
                                <<"sin", i, Max(1, max_iter - 1)>>)]

\* colors[i] of a JavaScript array: undefined off its indices
Index(colors, i) == IF i \in DOMAIN colors THEN colors[i] ELSE Undefined

(***************************************************************************)
(* Escape-time loop (lines 83-91) and colouring (lines 93-102) of a pixel. *)
(***************************************************************************)
\* while (m < threshold && count < max_iter)
Iterating(m_, count_, max_iter_) ==
    RLt(m_, Num(threshold)) /\ count_ < max_iter_

RECURSIVE Loop(_, _, _, _, _)
Loop(z_, count_, m_, c_, max_iter_) ==
    IF Iterating(m_, count_, max_iter_)
    THEN LET z1 == eval(z_, c_)
         IN  Loop(z1, count_ + 1, magnitude2(z1), c_, max_iter_)
    ELSE [z |-> z_, count |-> count_, m |-> m_]

Escape(c_, max_iter_) == Loop(Zero, 0, Num(0), c_, max_iter_)

\* nu = log2(log2(m)/2) for m >= 4: the least k >= 0 with m <= 4^(2^k) is
\* ceil(nu).  The squared magnitudes of the model stay below 2^32.
CeilNu(m_) ==
    IF ~RLt(Num(4), m_) THEN 0
    ELSE IF ~RLt(Num(16), m_) THEN 1
    ELSE IF ~RLt(Num(256), m_) THEN 2
    ELSE IF ~RLt(Num(65536), m_) THEN 3
    ELSE 4

\* nu is an integer exactly when m is 4, 16, 256 or 65536
NuIsInteger(m_) == m_ \in {Num(4), Num(16), Num(256), Num(65536)}

\* for 1 < m < 4, nu < 0 and floor(-nu) is the least j with m^(2^j) > 2
RECURSIVE FloorNegNu(_)
FloorNegNu(m_) ==
    IF RLt(Num(2), m_) THEN 0 ELSE 1 + FloorNegNu(RMul(m_, m_))

\* Math.floor(it), it = count + 1 - nu; "NaN" when the logarithms give NaN
\* or an infinity (m <= 1)
FloorIt(count_, m_) ==
    IF RGe(m_, Num(4)) THEN count_ + 1 - CeilNu(m_)
    ELSE IF RLt(Num(1), m_) THEN count_ + 1 + FloorNegNu(m_)
    ELSE -1

\* it % 1
FracIt(m_) ==
    IF NuIsInteger(m_) THEN <<"rat", 0, 1>> ELSE <<"nu", m_[1], m_[2]>>

\* the guard without its "- 1", taken also when the budget ran out
SmoothLoose(count_, max_iter_) == count_ < max_iter_ + 1

\* the smooth-colouring guard of line 95
Smooth(count_, max_iter_) == count_ < max_iter_ - 1

\* lines 94-102: the colour of a pixel whose loop ended with (count, m)
PixelColor(count_, m_, max_iter_, colors) ==
    IF Smooth(count_, max_iter_)
    THEN LET it == FloorIt(count_, m_)
         IN  linear_interpolate(Index(colors, it), Index(colors, it + 1),
                                FracIt(m_))
    ELSE Index(colors, count_)

(***************************************************************************)
(* State.                                                                  *)
(***************************************************************************)
VARIABLES
    canvas,     \* canvas element -> [width, height]
    session,    \* timer id -> the variables graph() closes over
    timers,     \* the host's live interval timers (ids)
    nextTimer,  \* the id the next setInterval returns
    xcurr,      \* the GLOBAL xcurr of "var x = xcurr = 0"
    ycurr,      \* the GLOBAL ycurr of "var y = ycurr = 0"
    informer,   \* timer id -> value of the informer element passed to graph()
    surface,    \* canvas element -> (pixel -> colour), the bitmap
    painted,    \* timer id -> pixels its callback passed to fillRect (log)
    signals,    \* timer id -> number of times it set informer.value (log)
    overlap,    \* ticks fired so far while several timers were live (log)
    ticks,      \* parity of the number of callback runs so far (log)
    ev,         \* the last call or callback and the surface calls it made (log)
    c,          \* the locals of the per-pixel block, lines 82-94
    max_iter,
    z,
    count,
    m,
    color,
    pc,
    color1,     \* the arguments of a call of linear_interpolate on its own
    color2,
    slope,
    colors      \* the array a call of palette on its own returned

svars == <<canvas, session, timers, nextTimer, xcurr, ycurr, informer,
           surface, painted, signals, overlap, ticks, ev>>
pvars == <<c, max_iter, z, count, m, color, pc>>
lvars == <<color1, color2, slope, colors>>
vars  == <<canvas, session, timers, nextTimer, xcurr, ycurr, informer,
           surface, painted, signals, overlap, ticks, ev,
           c, max_iter, z, count, m, color, pc,
           color1, color2, slope, colors>>

Canvases == {"canvas1", "canvas2"}
\* the smallest surface with tiles of 1 x 1 pixel, the smallest whose width
\* the tile width does not divide, the smallest whose height the tile
\* height does not divide
Sizes == {<<20, 10>>, <<61, 10>>, <<20, 31>>}
Ids == 1 .. MaxSessions

Rect(x, y, w, h) == (x .. x + w - 1) \X (y .. y + h - 1)
OnSurface(cv) == Rect(0, 0, canvas[cv].width, canvas[cv].height)

NoEvent == [op |-> "none", s |-> 0, pre |-> <<0, 0>>, cleared |-> {},
            filled |-> {}, threw |-> FALSE]

(***************************************************************************)
(* graph(canvas, max_iter, rxmin, rxmax, rymin, rymax, informer),          *)
(* lines 28-59 and 111-113: everything up to setInterval and the return.   *)
(***************************************************************************)
closure(cv, max_iter_, rxmin, rxmax, rymin, rymax) ==
    LET xdiff  == canvas[cv].width
        ydiff  == canvas[cv].height
        rangex == RSub(rxmax, rxmin)
        rangey == RSub(rymax, rymin)
    IN  [canvas   |-> cv,
         max_iter |-> max_iter_,
         xdiff    |-> xdiff,
         ydiff    |-> ydiff,
         xf       |-> RDiv(rangex, Num(xdiff)),
         yf       |-> RDiv(rangey, Num(ydiff)),
         xd       |-> Round(xdiff, xdivisions),
         yd       |-> Round(ydiff, ydivisions),
         rxmin    |-> rxmin,
         rymin    |-> rymin,
         xc       |-> rxmax,
         yc       |-> rymax,
         colors   |-> palette(max_iter_)]

graph(cv, max_iter_, rxmin, rxmax, rymin, rymax) ==
    IF paletteThrows(max_iter_)
    THEN \* palette() throws before xcurr, ycurr and the timer are touched
         /\ ev' = [NoEvent EXCEPT !.op = "graph", !.threw = TRUE]
         /\ UNCHANGED <<canvas, session, timers, nextTimer, xcurr, ycurr,
                        informer, surface, painted, signals, ticks>>
    ELSE /\ session' = [i \in DOMAIN session \cup {nextTimer} |->
                          IF i = nextTimer
                          THEN closure(cv, max_iter_, rxmin, rxmax, rymin, rymax)
                          ELSE session[i]]
         /\ xcurr' = 0
         /\ ycurr' = 0
         /\ timers' = timers \cup {nextTimer}
         /\ nextTimer' = nextTimer + 1
         /\ ev' = [NoEvent EXCEPT !.op = "graph", !.s = nextTimer,
                                  !.pre = <<xcurr, ycurr>>]
         /\ UNCHANGED <<canvas, informer, surface, painted, signals, ticks>>

(***************************************************************************)
(* The setInterval callback, lines 59-111.                                 *)
(***************************************************************************)
\* the test of line 61 with || for &&
AtEndEither(s) == xcurr >= session[s].xdiff \/ ycurr >= session[s].ydiff

\* line 61: if (xcurr >= xdiff && ycurr >= ydiff)
AtEnd(s) == xcurr >= session[s].xdiff /\ ycurr >= session[s].ydiff

\* line 67: if (xcurr >= xdiff)
RowEnd(s) == xcurr >= session[s].xdiff

\* lines 76-77: the pixels of the tile in the order the loops visit them
TileSeq(x0, y0, xd, yd) ==
    [k \in 1 .. xd * yd |-> <<x0 + ((k - 1) \div yd) * ptw,
                              y0 + ((k - 1) % yd) * ptw>>]

\* lines 79-82: canvas coordinates to fractal coordinates
PixelC(S, x, y) ==
    [real      |-> RSub(RMul(S.xf, Num(x)), S.xc),
     imaginary |-> RSub(RMul(S.yf, Num(y)), S.yc)]

\* lines 79-102 for one pixel
ColorAt(S, p) ==
    LET e == Escape(PixelC(S, p[1], p[2]), S.max_iter)
    IN  PixelColor(e.count, e.m, S.max_iter, S.colors)

\* clearRect and the fillRects of one tile on the bitmap, clipped to it
Paint(cv, rect, cols) ==
    LET old  == surface[cv]
        kept == DOMAIN old \ rect
        new  == DOMAIN cols \cap OnSurface(cv)
    IN  [p \in kept \cup new |-> IF p \in new THEN cols[p] ELSE old[p]]

Tick(s) ==
    /\ s \in timers
    /\ IF AtEnd(s)
       THEN /\ informer' = [informer EXCEPT ![s] = "hide"]
            /\ signals' = [signals EXCEPT ![s] = @ + 1]
            /\ ev' = [NoEvent EXCEPT !.op = "tick", !.s = s,
                                     !.pre = <<xcurr, ycurr>>]
            /\ UNCHANGED <<xcurr, ycurr, surface, painted>>
       ELSE LET S    == session[s]
                x0   == IF RowEnd(s) THEN 0 ELSE xcurr
                y0   == IF RowEnd(s) THEN ycurr + S.yd ELSE ycurr
                tile == TileSeq(x0, y0, S.xd, S.yd)
                cols == [k \in DOMAIN tile |-> ColorAt(S, tile[k])]
                bad  == {k \in DOMAIN tile : cols[k] = TypeError}
                \* a TypeError ends the callback at the first such pixel
                n    == IF bad = {} THEN Len(tile)
                        ELSE (CHOOSE k \in bad : \A j \in bad : k <= j) - 1
                done == {tile[k] : k \in 1 .. n}
                fill == [p \in done |->
                           cols[CHOOSE k \in 1 .. n : tile[k] = p]]
            IN  /\ surface' = [surface EXCEPT ![S.canvas] =
                                 Paint(S.canvas, Rect(x0, y0, S.xd, S.yd), fill)]
                /\ painted' = [painted EXCEPT ![s] = @ \cup done]
                /\ xcurr' = IF bad = {} THEN x0 + S.xd ELSE x0
                /\ ycurr' = y0
                /\ ev' = [op |-> "tick", s |-> s, pre |-> <<xcurr, ycurr>>,
                          cleared |-> Rect(x0, y0, S.xd, S.yd),
                          filled |-> done, threw |-> bad # {}]
                /\ UNCHANGED <<informer, signals>>
    /\ ticks' = 1 - ticks
    /\ UNCHANGED <<canvas, session, timers, nextTimer>>

(***************************************************************************)
(* clearInterval(timer) on a handle graph() returned (line 113): the host  *)
(* drops the timer; an id that is not live is ignored.                     *)
(***************************************************************************)
clearInterval(h) ==
    /\ h \in DOMAIN session
    /\ timers' = timers \ {h}
    /\ ev' = [NoEvent EXCEPT !.op = "cancel", !.s = h]
    /\ UNCHANGED <<canvas, session, nextTimer, xcurr, ycurr, informer,
                   surface, painted, signals, ticks>>

(***************************************************************************)
(* The requests the page makes.                                            *)
(***************************************************************************)
\* a region centred on the origin whose pixels are 1/2 apart
Centered(cv) ==
    <<Norm(-canvas[cv].width, 4), Norm(canvas[cv].width, 4),
      Norm(-canvas[cv].height, 4), Norm(canvas[cv].height, 4)>>
\* a region whose pixels are 2 apart: its corners are far from the origin
Wide(cv) ==
    <<Num(-canvas[cv].width), Num(canvas[cv].width),
      Num(-canvas[cv].height), Num(canvas[cv].height)>>
\* a region with rxmin = rxmax and rymin = rymax
Empty == <<Num(1), Num(1), Num(1), Num(1)>>
\* a region below the real axis whose pixels are 1 apart in x and 2 apart
\* in y: its pixel (0,0) is the point (0, 15)
Far(cv) ==
    <<Num(-canvas[cv].width), Num(0),
      Num(-15 - 2 * canvas[cv].height), Num(-15)>>

\* max_iter and region of a call
Requests(cv) ==
    {<<3, Centered(cv)>>, <<0, Centered(cv)>>, <<-2, Centered(cv)>>,
     <<3, Empty>>, <<3, Wide(cv)>>, <<3, Far(cv)>>}
\* the calls of a page that obeys the @requires of graph()
GoodRequests(cv) == {<<3, Centered(cv)>>}

InitRest ==
    /\ session = <<>>
    /\ timers = {}
    /\ nextTimer = 1
    /\ xcurr = 0
    /\ ycurr = 0
    /\ informer = [s \in Ids |-> "show"]
    /\ surface = [cv \in Canvases |-> <<>>]
    /\ painted = [s \in Ids |-> {}]
    /\ signals = [s \in Ids |-> 0]
    /\ overlap = 0
    /\ ticks = 0
    /\ ev = NoEvent

\* no colour function is being called on its own
InitColour ==
    /\ color1 = Undefined
    /\ color2 = Undefined
    /\ slope = Num(0)
    /\ colors = <<>>

\* no pixel is being evaluated on its own
InitPixel ==
    /\ InitColour
    /\ c = Zero
    /\ max_iter = 0
    /\ z = Zero
    /\ count = 0
    /\ m = Num(0)
    /\ color = Undefined
    /\ pc = "idle"

\* a page with two canvases of 20 x 10 pixels
Init ==
    /\ canvas = [cv \in Canvases |-> [width |-> 20, height |-> 10]]
    /\ InitRest
    /\ InitPixel

\* a page whose canvases have one of the Sizes
InitOne ==
    /\ \E sz \in Sizes :
          canvas = [cv \in Canvases |-> [width |-> sz[1], height |-> sz[2]]]
    /\ InitRest
    /\ InitPixel

\* the page calls graph() again: early in the running session, or after a
\* session has signalled its end
Early == ycurr = 0 /\ xcurr <= MaxLead
Request ==
    /\ nextTimer <= MaxSessions
    /\ Early \/ \E s \in DOMAIN session : signals[s] > 0
    /\ \E cv \in Canvases : \E r \in GoodRequests(cv) :
          graph(cv, r[1], r[2][1], r[2][2], r[2][3], r[2][4])
    /\ UNCHANGED <<overlap, pvars, lvars>>

\* the page calls graph() once, with any arguments
RequestOne ==
    /\ nextTimer = 1
    /\ \E cv \in Canvases : \E r \in Requests(cv) :
          graph(cv, r[1], r[2][1], r[2][2], r[2][3], r[2][4])
    /\ UNCHANGED <<overlap, pvars, lvars>>

\* the host fires a live timer
Fire ==
    /\ \E s \in timers :
          /\ AtEnd(s) => signals[s] < MaxSignals
          /\ Tick(s)
    /\ IF Cardinality(timers) > 1
       THEN overlap < MaxOverlap /\ overlap' = overlap + 1
       ELSE overlap' = overlap
    /\ UNCHANGED <<pvars, lvars>>

\* the page cancels a handle it holds
Cancel ==
    /\ \E h \in DOMAIN session : clearInterval(h)
    /\ UNCHANGED <<overlap, pvars, lvars>>

Next == Request \/ Fire \/ Cancel

\* a page that may call graph() while a session runs
Spec == Init /\ [][Next]_vars

NextOne == RequestOne \/ Fire \/ Cancel

\* a page that calls graph() once
SpecOne == InitOne /\ [][NextOne]_vars

(***************************************************************************)
(* A page that calls graph() once with arguments that meet its @requires   *)
(* and never clears the timer: the host keeps firing the interval.         *)
(***************************************************************************)
\* a surface of one pixel, and the smallest one with tiles of 1 x 1 pixel
LiveSizes == {<<1, 1>>, <<20, 10>>}
LiveRequests(cv) == {<<3, Centered(cv)>>, <<3, Wide(cv)>>}

InitLive ==
    /\ \E sz \in LiveSizes :
          canvas = [cv \in Canvases |-> [width |-> sz[1], height |-> sz[2]]]
    /\ InitRest
    /\ InitPixel

RequestLive ==
    /\ nextTimer = 1
    /\ \E cv \in Canvases : \E r \in LiveRequests(cv) :
          graph(cv, r[1], r[2][1], r[2][2], r[2][3], r[2][4])
    /\ UNCHANGED <<overlap, pvars, lvars>>

NextLive == RequestLive \/ Fire

\* a run of the callback is due: the guard of Fire
Due ==
    /\ \E s \in timers : AtEnd(s) => signals[s] < MaxSignals
    /\ Cardinality(timers) > 1 => overlap < MaxOverlap
\* a run of the callback, seen on the counter that every run and no other
\* step changes
Run == Due /\ ticks' = 1 - ticks

\* setInterval(.., 1): the host keeps firing a live timer, so a run of the
\* callback that stays due is eventually made
SpecLive == InitLive /\ [][NextLive]_vars /\ WF_ticks(Run)

(***************************************************************************)
(* The per-pixel block of lines 82-102 on its own: the escape-time loop    *)
(* run one iteration at a time on a point c and a max_iter drawn from      *)
(* bounded sets, then the colouring.                                       *)
(***************************************************************************)
Halves == {Norm(k, 2) : k \in -MaxCoord .. MaxCoord}
Points == {[real |-> re, imaginary |-> im] : re \in Halves, im \in Halves}

InitEval ==
    /\ canvas = [cv \in Canvases |-> [width |-> 20, height |-> 10]]
    /\ InitRest
    /\ InitColour
    /\ c \in Points
    /\ max_iter \in 1 .. MaxIterEval
    /\ z = Zero
    /\ count = 0
    /\ m = Num(0)
    /\ color = Undefined
    /\ pc = "loop"

\* lines 87-91: one iteration of the while loop
Iterate ==
    /\ pc = "loop"
    /\ Iterating(m, count, max_iter)
    /\ z' = eval(z, c)
    /\ count' = count + 1
    /\ m' = magnitude2(z')
    /\ UNCHANGED <<c, max_iter, color, pc, svars, lvars>>

\* lines 93-104: the loop has ended, the pixel gets its colour
Colour ==
    /\ pc = "loop"
    /\ ~Iterating(m, count, max_iter)
    /\ color' = PixelColor(count, m, max_iter, palette(max_iter))
    /\ pc' = "done"
    /\ UNCHANGED <<c, max_iter, z, count, m, svars, lvars>>

NextEval == Iterate \/ Colour

SpecEval == InitEval /\ [][NextEval]_vars

(***************************************************************************)
(* The colour functions on their own: one call of palette (lines 164-177)  *)
(* or of linear_interpolate (lines 138-156) on arguments drawn from        *)
(* bounded sets.                                                           *)
(***************************************************************************)
\* colours with channels in 0 .. 255, in either letter case
Colours == {Hex("#000000"), Hex("#ffffff"), Hex("#773399"), Hex("#CCAA66"),
            Hex("#0A0b0C")}
\* the weights k/4 from -MaxSlope/4 to 1 + MaxSlope/4
Slopes == {Norm(k, 4) : k \in -MaxSlope .. 4 + MaxSlope}

InitFunctions ==
    /\ canvas = [cv \in Canvases |-> [width |-> 20, height |-> 10]]
    /\ InitRest
    /\ c = Zero
    /\ z = Zero
    /\ count = 0
    /\ m = Num(0)
    /\ color = Undefined
    /\ colors = <<>>
    /\ \/ /\ pc = "palette"
          /\ max_iter \in 1 .. MaxIterEval
          /\ color1 = Undefined
          /\ color2 = Undefined
          /\ slope = Num(0)
       \/ /\ pc = "interpolate"
          /\ max_iter = 0
          /\ color1 \in Colours
          /\ color2 \in Colours
          /\ slope \in Slopes

\* var colors = palette(max_iter), line 50
Palette ==
    /\ pc = "palette"
    /\ colors' = palette(max_iter)
    /\ pc' = "built"
    /\ UNCHANGED <<c, max_iter, z, count, m, color, color1, color2, slope,
                   svars>>

\* color = linear_interpolate(color1, color2, slope), as on line 101
Interpolate ==
    /\ pc = "interpolate"
    /\ color' = linear_interpolate(color1, color2,
                                   <<"rat", slope[1], slope[2]>>)
    /\ pc' = "interpolated"
    /\ UNCHANGED <<c, max_iter, z, count, m, color1, color2, slope, colors,
                   svars>>

NextFunctions == Palette \/ Interpolate

SpecFunctions == InitFunctions /\ [][NextFunctions]_vars

(***************************************************************************)
(* The orbit of the quadratic map, written out on the rationals.           *)
(***************************************************************************)
Quadratic(w, k) ==
    [real      |-> RAdd(RSub(RMul(w.real, w.real),
                             RMul(w.imaginary, w.imaginary)), k.real),
     imaginary |-> RAdd(RMul(Num(2), RMul(w.real, w.imaginary)), k.imaginary)]

RECURSIVE Orbit(_, _)
Orbit(k, n) == IF n = 0 THEN Zero ELSE Quadratic(Orbit(k, n - 1), k)

SquaredMagnitude(w) ==
    RAdd(RMul(w.real, w.real), RMul(w.imaginary, w.imaginary))

\* the least n in from .. max whose iterate has squared magnitude >= 4,
\* or max when there is none
RECURSIVE FirstEscape(_, _, _)
FirstEscape(k, from, max) ==
    IF from >= max \/ RGe(SquaredMagnitude(Orbit(k, from)), Num(4))
    THEN from
    ELSE FirstEscape(k, from + 1, max)

\* C9: for every point c and every max_iter > 0 the escape loop ends after
\* at most max_iter iterations with 0 <= count <= max_iter, count the least
\* k >= 1 whose iterate has squared magnitude >= 4 (max_iter when there is
\* none) and m the squared magnitude of the count-th iterate.
C9_EvaluatorPostcondition ==
    /\ pc \in {"loop", "done"} => count \in 0 .. max_iter
    /\ pc = "done" =>
          /\ count = FirstEscape(c, 1, max_iter)
          /\ m = SquaredMagnitude(Orbit(c, count))
          /\ z = Orbit(c, count)

\* an orbit that escapes at its second iterate, before the budget of 3
C9_Witness ==
    /\ pc = "done"
    /\ max_iter = 3
    /\ count = 2
    /\ RGe(m, Num(4))
    /\ RLt(SquaredMagnitude(Orbit(c, 1)), Num(4))

\* C10: for c = (0,0) and every max_iter > 0 the loop keeps z = (0,0) at
\* every iteration and ends with count = max_iter and m = 0, and the pixel
\* gets the reserved in-set palette entry colors[max_iter], black.
C10_OriginIsInSet ==
    (pc \in {"loop", "done"} /\ c = Zero) =>
        /\ z = Zero
        /\ m = Num(0)
        /\ pc = "done" =>
              /\ count = max_iter
              /\ color = Hex("#000000")
              /\ color = palette(max_iter)[max_iter]

\* the origin, coloured after max_iter = 3 iterations
C10_Witness ==
    /\ pc = "done"
    /\ c = Zero
    /\ max_iter = 3
    /\ count = 3
    /\ color = Hex("#000000")

(***************************************************************************)
(* The render sessions of the claims.  A session is a call of graph() that *)
(* returned a timer id; it is Complete once its callback has seen the      *)
(* cursor at or past both the width and the height of its surface.         *)
(***************************************************************************)
Sessions == DOMAIN session
SurfaceOf(s) == session[s].canvas
Width(s) == canvas[SurfaceOf(s)].width
Height(s) == canvas[SurfaceOf(s)].height
CursorPastEnd(s) == xcurr >= Width(s) /\ ycurr >= Height(s)
Complete(s) == signals[s] > 0
Running(s) == s \in timers /\ ~Complete(s)
\* the step taken is a run of the callback of session s
TickOf(s) == ev'.op = "tick" /\ ev'.s = s
\* the step taken is a call of graph() that created session s
StartOf(s) == ev'.op = "graph" /\ ev'.s = s
\* the step taken is clearInterval on the handle of session s
CancelOf(s) == ev'.op = "cancel" /\ ev'.s = s

\* C1: no tick of a render session clears or fills a pixel outside
\* 0 <= x < width, 0 <= y < height of its surface.
C1_NoOutOfBoundsWrites ==
    /\ ev.op = "tick" =>
          (ev.cleared \cup ev.filled) \subseteq OnSurface(SurfaceOf(ev.s))
    /\ \A s \in Sessions : painted[s] \subseteq OnSurface(SurfaceOf(s))

\* C2: once a session is Complete, every pixel of its surface has been
\* written by fillRect in an earlier tick of that session.
C2_NoGaps ==
    \A s \in Sessions :
        Complete(s) => OnSurface(SurfaceOf(s)) \subseteq painted[s]

\* C3: a call of graph() for a surface invalidates the Running session of
\* that surface: at most one session per surface is active, and a session
\* makes no clearRect/fillRect once a later session exists for its surface.
C3_Superseding ==
    /\ \A cv \in Canvases :
          Cardinality({s \in Sessions : Running(s) /\ SurfaceOf(s) = cv}) <= 1
    /\ (ev.op = "tick" /\ (ev.cleared # {} \/ ev.filled # {})) =>
          ~ \E t \in Sessions : t > ev.s /\ SurfaceOf(t) = SurfaceOf(ev.s)

\* C4: a call with max_iter <= 0, rxmin >= rxmax or rymin >= rymax creates
\* no session: no palette, no timer, no tick, no surface write.
C4_PreconditionRejection ==
    \A s \in Sessions :
        /\ session[s].max_iter > 0
        /\ RLt(session[s].rxmin, session[s].xc)
        /\ RLt(session[s].rymin, session[s].yc)

\* C5: after clearInterval on its handle a session's callback never runs
\* again; clearInterval on the handle of a Complete session, or on a handle
\* already cancelled, changes no state.
C5_Cancel ==
    [][\A h \in Sessions :
          /\ h \notin timers => ~TickOf(h)
          /\ (CancelOf(h) /\ (Complete(h) \/ h \notin timers)) =>
                UNCHANGED <<canvas, session, timers, nextTimer, xcurr, ycurr,
                            informer, surface>>]_vars

\* C6: a tick that sees cursor_x >= width and cursor_y >= height sets
\* informer.value = "hide", makes no clearRect/fillRect and leaves the
\* cursor; a tick that does not see it does not touch the informer.
C6_CompletionSignal ==
    [][\A s \in Sessions :
          TickOf(s) =>
             IF CursorPastEnd(s)
             THEN /\ informer'[s] = "hide"
                  /\ signals'[s] = signals[s] + 1
                  /\ ev'.cleared = {} /\ ev'.filled = {}
                  /\ UNCHANGED <<surface, painted, xcurr, ycurr>>
             ELSE UNCHANGED <<informer, signals>>]_vars

\* the completing tick of a session has just run
C6_Witness ==
    /\ ev.op = "tick"
    /\ ev.pre[1] >= canvas[session[ev.s].canvas].width
    /\ ev.pre[2] >= canvas[session[ev.s].canvas].height
    /\ informer[ev.s] = "hide"
    /\ signals[ev.s] = 1
    /\ OnSurface(session[ev.s].canvas) \subseteq painted[ev.s]

\* C7: a Complete session is invalidated: its timer is cancelled, and its
\* render-finished signal fires at most once.
C7_DiscardedOnCompletion ==
    \A s \in Sessions :
        Complete(s) => s \notin timers /\ signals[s] <= 1

\* C8: starting or ticking another session never changes the cursor of an
\* existing session.
C8_NoSharedCursor ==
    [][\A s \in Sessions : \A t \in Ids :
          (t # s /\ Running(s) /\ (StartOf(t) \/ TickOf(t))) =>
              UNCHANGED <<xcurr, ycurr>>]_vars

(***************************************************************************)
(* The colouring of a pixel, lines 93-102.                                 *)
(***************************************************************************)
\* the smooth-colouring blend: the palette sampled at floor(it) and
\* floor(it) + 1, weighted by it % 1
SmoothBlend(count_, m_, colors_) ==
    linear_interpolate(Index(colors_, FloorIt(count_, m_)),
                       Index(colors_, FloorIt(count_, m_) + 1), FracIt(m_))

\* C11: a pixel is coloured by the smooth-colouring blend of colors[floor(it)]
\* and colors[floor(it)+1] if and only if its loop ended with
\* count < max_iter; it gets the unblended colors[count] only when
\* count = max_iter, and that entry is black.
C11_SmoothGuard ==
    pc = "done" =>
        /\ count < max_iter =>
              color = SmoothBlend(count, m, palette(max_iter))
        /\ count >= max_iter =>
              /\ count = max_iter
              /\ color = palette(max_iter)[count]
              /\ color = Hex("#000000")

\* C15: whenever the smooth-colouring branch is taken for a pixel (finite
\* c, max_iter > 0) its final squared magnitude m is >= 4, so log(m)/2 >=
\* log 2 and nu is defined and >= 0; a pixel whose m is below 4 gets the
\* unblended colors[count].
C15_SmoothDefined ==
    pc = "done" =>
        /\ Smooth(count, max_iter) =>
              /\ RGe(m, Num(threshold))
              /\ FloorIt(count, m) = count + 1 - CeilNu(m)
              /\ FloorIt(count, m) <= count + 1
        /\ RLt(m, Num(threshold)) =>
              /\ ~Smooth(count, max_iter)
              /\ color = palette(max_iter)[count]

\* a pixel that escaped after one iteration of three and was blended
C15_Witness ==
    /\ pc = "done"
    /\ max_iter = 3
    /\ count = 1
    /\ Smooth(count, max_iter)
    /\ RLt(Num(4), m)
    /\ color = <<"lerp", palette(3)[1], palette(3)[2], <<"nu", m[1], m[2]>>>>

(***************************************************************************)
(* The ticks of one session.                                               *)
(***************************************************************************)
\* the corner of the rectangle a tick cleared
Origin(e) ==
    CHOOSE o \in e.cleared :
        \A q \in e.cleared : o[1] <= q[1] /\ o[2] <= q[2]
\* row-major order: by y, then by x
RowMajorLess(o1, o2) == o1[2] < o2[2] \/ (o1[2] = o2[2] /\ o1[1] < o2[1])

\* C17: a tick of a Running session that is not the completing tick clears
\* exactly the tile with origin (cursor_x, cursor_y) and size (tile_w,
\* tile_h), writes exactly the pixels of that tile, and advances cursor_x by
\* tile_w, leaving width, height, tile size, scale factors and palette.
C17_OneTilePerTick ==
    [][\A s \in Sessions :
          (TickOf(s) /\ Running(s) /\ ~CursorPastEnd(s)) =>
             /\ ev'.cleared = Rect(xcurr, ycurr, session[s].xd, session[s].yd)
             /\ ev'.filled = ev'.cleared
             /\ xcurr' = xcurr + session[s].xd
             /\ ycurr' = ycurr
             /\ UNCHANGED <<session, canvas>>]_vars

\* C18: within one session the origins of the painted tiles are strictly
\* increasing in row-major order; every origin has x a multiple of tile_w
\* below the width and y a multiple of tile_h; the cursor wraps to x = 0,
\* y + tile_h exactly in a tick that finds cursor_x at or past the width;
\* cursor_y never decreases.
C18_CursorOrder ==
    [][\A s \in Sessions :
          (TickOf(s) /\ ev'.cleared # {}) =>
             /\ Origin(ev')[1] % session[s].xd = 0
             /\ Origin(ev')[1] < Width(s)
             /\ Origin(ev')[2] % session[s].yd = 0
             /\ (ev.op = "tick" /\ ev.s = s /\ ev.cleared # {}) =>
                   RowMajorLess(Origin(ev), Origin(ev'))
             /\ (xcurr >= Width(s)) <=>
                   (Origin(ev') = <<0, ycurr + session[s].yd>>)
             /\ (xcurr < Width(s)) => Origin(ev') = <<xcurr, ycurr>>
             /\ ycurr' >= ycurr]_vars

\* C19: in a single session (one call of graph()) the tiles never overlap:
\* between its start and Complete no pixel is written by fillRect twice and
\* no tile is painted twice.
C19_NoRepainting ==
    [][\A s \in Sessions :
          (TickOf(s) /\ ~Complete(s)) =>
             /\ ev'.filled \cap painted[s] = {}
             /\ ev'.cleared \cap painted[s] = {}]_vars

\* the corners of the region a session was requested for; graph() keeps
\* rxmax and rymax as xc and yc
RegionOf(s) ==
    [x_min |-> session[s].rxmin, x_max |-> session[s].xc,
     y_min |-> session[s].rymin, y_max |-> session[s].yc]

\* C20: for a request with x_min < x_max and y_min < y_max the constant c of
\* every on-surface pixel (x, y) lies inside the requested region, pixel
\* column 0 is x_min, pixel row 0 is y_min, and neighbouring pixels are xf
\* (resp. yf) apart.
C20_PixelToRegion ==
    \A s \in Sessions :
        LET S == session[s]
            R == RegionOf(s)
        IN  (ev.op = "graph" /\ ev.s = s
             /\ RLt(R.x_min, R.x_max) /\ RLt(R.y_min, R.y_max)) =>
               /\ PixelC(S, 0, 0) = [real |-> R.x_min, imaginary |-> R.y_min]
               /\ \A p \in OnSurface(S.canvas) :
                     LET k == PixelC(S, p[1], p[2])
                     IN  /\ RGe(k.real, R.x_min) /\ RGe(R.x_max, k.real)
                         /\ RGe(k.imaginary, R.y_min)
                         /\ RGe(R.y_max, k.imaginary)
                         /\ RSub(PixelC(S, p[1] + 1, p[2]).real, k.real) = S.xf
                         /\ RSub(PixelC(S, p[1], p[2] + 1).imaginary,
                                 k.imaginary) = S.yf

\* C16: a session started by graph() on a surface with width >= 1 and
\* height >= 1 and with max_iter > 0, whose timer keeps firing and is never
\* cleared, eventually reaches Complete: some tick sees xcurr >= width and
\* ycurr >= height.
C16_Termination ==
    \A s \in Ids : (s \in Sessions) ~> Complete(s)

(***************************************************************************)
(* The colour functions.                                                   *)
(***************************************************************************)
HexChars == {Digits[i] : i \in 1 .. 16} \cup {"A", "B", "C", "D", "E", "F"}
\* the string is "#" and exactly six hex digits
WellFormed(col) ==
    /\ Len(col) = 7
    /\ col[1] = "#"
    /\ \A j \in 2 .. 7 : col[j] \in HexChars
\* the three channels of a well-formed colour
Channels(col) == <<parseInt16(col, 1), parseInt16(col, 3), parseInt16(col, 5)>>
\* equal channel by channel, whatever the case of the hex letters
SameColour(a, b) ==
    WellFormed(a) /\ WellFormed(b) /\ Channels(a) = Channels(b)

\* C12: for every max_iter > 0, palette(max_iter) has exactly the max_iter+1
\* entries 0 .. max_iter, each a defined colour, and its entry max_iter is
\* #000000.  (palette reads its argument and two literals only, so two calls
\* with one max_iter build the same array.)
C12_Palette ==
    pc = "built" =>
        /\ DOMAIN colors = 0 .. max_iter
        /\ Cardinality(DOMAIN colors) = max_iter + 1
        /\ \A i \in 0 .. max_iter : WellFormed(Index(colors, i))
        /\ colors[max_iter] = Hex("#000000")

\* the palette of max_iter = 3: its middle entry is the blend at sin(PI/4)
C12_Witness ==
    /\ pc = "built"
    /\ max_iter = 3
    /\ colors[0] = Hex("#773399")
    /\ colors[1] = Hex("#b38774")
    /\ colors[2] = Hex("#ccaa66")
    /\ colors[3] = Hex("#000000")

\* the magnitude of a channel before it is written: |c1 + t * (c2 - c1)|
Magnitude(a, b, t, from) ==
    RAbs(RAdd(Num(parseInt16(a, from)),
              RMul(t, Num(parseInt16(b, from) - parseInt16(a, from)))))

\* C13: for any two colours with channels in 0..255 and any weight t, also
\* t < 0 and t > 1, linear_interpolate returns a well-formed #RRGGBB colour
\* whose channels are clamped into [0,255]: a channel whose magnitude
\* exceeds 255 is written as 255.
C13_InterpolatorRange ==
    pc = "interpolated" =>
        /\ color # TypeError
        /\ WellFormed(color)
        /\ \A from \in {1, 3, 5} :
              /\ parseInt16(color, from) \in 0 .. 255
              /\ RLt(Num(255), Magnitude(color1, color2, slope, from)) =>
                    parseInt16(color, from) = 255

\* C14: linear_interpolate(a, b, 0) is a, linear_interpolate(a, b, 1) is b
\* and linear_interpolate(c, c, t) is c for every t in [0,1], colours
\* compared channel by channel whatever the case of their hex letters.
C14_InterpolatorEndpoints ==
    pc = "interpolated" =>
        /\ slope = Num(0) => SameColour(color, color1)
        /\ slope = Num(1) => SameColour(color, color2)
        /\ (color1 = color2 /\ RGe(slope, Num(0)) /\ RGe(Num(1), slope)) =>
              SameColour(color, color1)

\* weight 1 between black and the upper-case #CCAA66 gives #ccaa66
C14_Witness ==
    /\ pc = "interpolated"
    /\ slope = Num(1)
    /\ color1 = Hex("#000000")
    /\ color2 = Hex("#CCAA66")
    /\ color = Hex("#ccaa66")

====
